---------------------------- MODULE Spec2Model ----------------------------
(***************************************************************************)
(* Query-identity cache of LibreChat: api/cache/queryCache.js (key         *)
(* deriver and accessor) and api/server/middleware/queryCache.js (the      *)
(* request-side and response-side interceptors).                           *)
(*                                                                         *)
(* JavaScript values are tagged records; a string is the sequence of its   *)
(* characters.  The SHA-256 digest is an injective wrapper around the      *)
(* text it is computed from; the text itself is built as the code builds   *)
(* it.                                                                     *)
(***************************************************************************)
EXTENDS Integers, Sequences, FiniteSets, TLC

VARIABLES
  fn,        \* arguments and result of the pure function under study
  store,     \* the QUERY_RESULTS namespace of the key-value store
  now,       \* the clock that new Date() reads
  lastCall,  \* the accessor call made last, with its outcome
  written,   \* identity -> arguments of the latest successful set still live
  calls,     \* number of accessor calls and expiries so far
  req,       \* per request: position in the pipeline and request-scoped data
  pending,   \* setCachedQuery calls dispatched by res.json, not yet settled
  last       \* the pipeline step taken last, with what it emitted

vars == <<fn, store, now, lastCall, written, calls, req, pending, last>>

---------------------------------------------------------------------------
(* Bounds *)

MaxLen == 2        \* longest query text drawn for the key deriver
MaxScopeLen == 1   \* longest scope drawn for the key deriver
MaxCalls == 3      \* accessor calls and expiries in one run
MaxEmits == 2      \* res.json calls the handlers make in one run

---------------------------------------------------------------------------
(* JavaScript values *)

Chars == {" ", "a", ":"}
Whitespace == {" "}

Undefined == [t |-> "undefined"]
Null == [t |-> "null"]
Str(s) == [t |-> "string", s |-> s]
Num(n) == [t |-> "number", n |-> n]
Bool(b) == [t |-> "boolean", b |-> b]

IsString(v) == v.t = "string"

\* ToBoolean: undefined, null, "", 0 and false are falsy, objects are truthy.
Truthy(v) ==
  CASE v.t = "undefined" -> FALSE
    [] v.t = "null" -> FALSE
    [] v.t = "string" -> v.s # <<>>
    [] v.t = "number" -> v.n # 0
    [] v.t = "boolean" -> v.b
    [] OTHER -> TRUE

\* a || b
Or(a, b) == IF Truthy(a) THEN a ELSE b

\* Default parameter value: userId = ''.
DefaultEmpty(u) == IF u = Undefined THEN Str(<<>>) ELSE u

RECURSIVE TrimStart(_)
TrimStart(s) ==
  IF s # <<>> /\ Head(s) \in Whitespace THEN TrimStart(Tail(s)) ELSE s

RECURSIVE TrimEnd(_)
TrimEnd(s) ==
  IF s # <<>> /\ s[Len(s)] \in Whitespace
    THEN TrimEnd(SubSeq(s, 1, Len(s) - 1))
    ELSE s

\* String.prototype.trim
Trim(s) == TrimEnd(TrimStart(s))

RECURSIVE StringsOfLen(_)
StringsOfLen(n) ==
  IF n = 0 THEN {<<>>}
  ELSE {Append(s, c) : s \in StringsOfLen(n - 1), c \in Chars}

Strings(n) == UNION {StringsOfLen(k) : k \in 0..n}

---------------------------------------------------------------------------
(* Key deriver *)

\* `${userId}:${queryText}`
FullText(queryText, userId) == userId \o <<":">> \o queryText

\* sha256(...).digest('hex').substring(0, 32), taken as injective.
Digest(text) == [sha |-> text]

createQueryCacheKeyIgnoringUser(queryText, userId) ==
  Digest(FullText(queryText, <<>>))

createQueryCacheKey(queryText, userId) == Digest(FullText(queryText, userId))

---------------------------------------------------------------------------
(* Store collaborator: get / set / clear over one namespace *)

EmptyStore == [k \in {} |-> Undefined]

StoreGet(st, k) == IF k \in DOMAIN st THEN st[k] ELSE Undefined

StoreSet(st, k, v) == [x \in DOMAIN st \cup {k} |-> IF x = k THEN v ELSE st[x]]

StoreClear(st) == EmptyStore

StoreDrop(st, k) == [x \in DOMAIN st \ {k} |-> st[x]]

\* Where a store interaction raises: nowhere, in getLogStores, in get/set/clear.
Faults == {"none", "lookup", "op"}

---------------------------------------------------------------------------
(* Accessor.  An outcome says how the call ended (kind), with what (val),   *)
(* which diagnostic it emitted (signal), which store interactions it made *)
(* and with which trimmed text it called the key deriver (keyArgs).        *)

Outcome(kind, val, signal, lookups, reads, writes, keyArgs, st) ==
  [kind |-> kind, val |-> val, signal |-> signal, lookups |-> lookups,
   reads |-> reads, writes |-> writes, keyArgs |-> keyArgs, st |-> st]

\* What the caller and the observer see of an outcome: all but the store.
Report(o) ==
  [kind |-> o.kind, val |-> o.val, signal |-> o.signal, lookups |-> o.lookups,
   reads |-> o.reads, writes |-> o.writes, keyArgs |-> o.keyArgs]

NoOutcome == Report(Outcome("none", Undefined, "none", 0, 0, 0, <<>>, EmptyStore))

CatchRethrows(o, val) == o

\* catch (error) { console.error(...); return <val>; }
Catch(o, val) ==
  IF o.kind = "throw"
    THEN [o EXCEPT !.kind = "return", !.val = val, !.signal = "error"]
    ELSE o

\* The try block of getCachedQuery.
GetTry(st, queryText, userId, fault) ==
  IF fault = "lookup"
    THEN Outcome("throw", Undefined, "none", 1, 0, 0, <<>>, st)
  ELSE
    LET text == Trim(queryText.s)
        cacheKey == createQueryCacheKey(text, userId.s)
        result == StoreGet(st, cacheKey)
    IN IF fault = "op"
         THEN Outcome("throw", Undefined, "none", 1, 1, 0, <<text>>, st)
       ELSE IF Truthy(result)
         THEN Outcome("return", result, "hit", 1, 1, 0, <<text>>, st)
       ELSE Outcome("return", Null, "miss", 1, 1, 0, <<text>>, st)

GetRejects(queryText) == ~Truthy(queryText) \/ ~IsString(queryText)

getCachedQuery(st, queryText, userIdArg, fault) ==
  IF GetRejects(queryText)
    THEN Outcome("return", Null, "none", 0, 0, 0, <<>>, st)
    ELSE Catch(GetTry(st, queryText, DefaultEmpty(userIdArg), fault), Null)

\* The entry object literal of setCachedQuery.
Entry(result, queryText, timestamp, userId) ==
  [t |-> "object", result |-> result, query |-> queryText,
   timestamp |-> timestamp, userId |-> userId]

SetTryUntrimmedKey(st, queryText, result, userId, ts, fault) ==
  IF fault # "none"
    THEN Outcome("throw", Undefined, "none", 1, 0, 0, <<>>, st)
    ELSE Outcome("return", Bool(TRUE), "cached", 1, 0, 1, <<queryText.s>>,
                 StoreSet(st, createQueryCacheKey(queryText.s, userId.s),
                          Entry(result, queryText, ts, userId)))

SetTryClearsOthers(st, queryText, result, userId, ts, fault) ==
  IF fault # "none"
    THEN Outcome("throw", Undefined, "none", 1, 0, 0, <<>>, st)
    ELSE Outcome("return", Bool(TRUE), "cached", 1, 0, 1, <<Trim(queryText.s)>>,
                 StoreSet(EmptyStore,
                          createQueryCacheKey(Trim(queryText.s), userId.s),
                          Entry(result, queryText, ts, userId)))

\* The try block of setCachedQuery; ts is the value new Date() returns.
SetTry(st, queryText, result, userId, ts, fault) ==
  IF fault = "lookup"
    THEN Outcome("throw", Undefined, "none", 1, 0, 0, <<>>, st)
  ELSE
    LET text == Trim(queryText.s)
        cacheKey == createQueryCacheKey(text, userId.s)
        entry == Entry(result, queryText, ts, userId)
    IN IF fault = "op"
         THEN Outcome("throw", Undefined, "none", 1, 0, 1, <<text>>, st)
         ELSE Outcome("return", Bool(TRUE), "cached", 1, 0, 1, <<text>>,
                      StoreSet(st, cacheKey, entry))

SetRejectsNoResultCheck(queryText, result) ==
  ~Truthy(queryText) \/ ~IsString(queryText)

SetRejects(queryText, result) ==
  ~Truthy(queryText) \/ ~IsString(queryText) \/ result = Undefined

setCachedQuery(st, queryText, result, userIdArg, ts, fault) ==
  IF SetRejects(queryText, result)
    THEN Outcome("return", Bool(FALSE), "none", 0, 0, 0, <<>>, st)
    ELSE Catch(SetTry(st, queryText, result, DefaultEmpty(userIdArg), ts, fault),
               Bool(FALSE))

\* The try block of clearQueryCache.
ClearTry(st, fault) ==
  IF fault = "lookup"
    THEN Outcome("throw", Undefined, "none", 1, 0, 0, <<>>, st)
  ELSE IF fault = "op"
    THEN Outcome("throw", Undefined, "none", 1, 0, 1, <<>>, st)
  ELSE Outcome("return", Bool(TRUE), "cleared", 1, 0, 1, <<>>, StoreClear(st))

clearQueryCache(st, fault) == Catch(ClearTry(st, fault), Bool(FALSE))

---------------------------------------------------------------------------
(* State shared by the specifications *)

NoFn == [phase |-> "none"]

NoCall ==
  [op |-> "none", q |-> Undefined, r |-> Undefined, u |-> Undefined,
   fault |-> "none", out |-> NoOutcome, pre |-> {}]

NoWritten == [i \in {} |-> Undefined]

Reqs == {"r1", "r2"}

NoMarker == [userQuery |-> Undefined, userId |-> Undefined]

NoReq ==
  [pc |-> "idle", userQuery |-> Undefined, userId |-> Undefined,
   marker |-> NoMarker, wrapped |-> FALSE,
   gets |-> 0, handlerCalls |-> 0, emits |-> 0, delivers |-> 0, sets |-> 0]

NoEvent == [kind |-> "none"]

InitPipeline == req = [r \in Reqs |-> NoReq] /\ pending = {} /\ last = NoEvent

InitAccessorVars == lastCall = NoCall /\ written = NoWritten /\ calls = 0

InitStore == store = EmptyStore /\ now = 0

---------------------------------------------------------------------------
(* Key deriver applied to two (scope, trimmed text) pairs *)

KeyArgs ==
  {[q |-> Trim(s), u |-> v] : s \in Strings(MaxLen), v \in Strings(MaxScopeLen)}

InitKey ==
  /\ fn \in {[phase |-> "args", a |-> a, b |-> b, ka |-> Undefined, kb |-> Undefined] :
               a \in KeyArgs, b \in KeyArgs}
  /\ InitStore /\ InitAccessorVars /\ InitPipeline

DeriveKeys ==
  /\ fn.phase = "args"
  /\ fn' = [fn EXCEPT !.phase = "keys",
                      !.ka = createQueryCacheKey(fn.a.q, fn.a.u),
                      !.kb = createQueryCacheKey(fn.b.q, fn.b.u)]
  /\ UNCHANGED <<store, now, lastCall, written, calls, req, pending, last>>

NextKey == DeriveKeys

SpecKey == InitKey /\ [][NextKey]_vars

---------------------------------------------------------------------------
(* Accessor called by one sequential client, with store faults and expiry. *)
(* The clock advances by one between two calls.                            *)

QueryArgs ==
  {Undefined, Num(5), Str(<<>>), Str(<<" ">>), Str(<<"a">>), Str(<<" ", "a">>),
   Str(<<":", "a">>)}

ScopeArgs == {Str(<<>>), Str(<<":">>)}

ResultArgs == {Undefined, Num(0), Num(1)}

\* The identity of a call: (scope, trimmed text).
Identity(q, u) == [u |-> DefaultEmpty(u).s, t |-> Trim(q.s)]

IdentityKey(id) == createQueryCacheKey(id.t, id.u)

InitAccessor ==
  /\ fn = NoFn
  /\ InitStore /\ InitAccessorVars /\ InitPipeline

CallGet(q, u, fault) ==
  /\ calls < MaxCalls
  /\ calls' = calls + 1
  /\ lastCall' = [op |-> "get", q |-> q, r |-> Undefined, u |-> u, fault |-> fault,
                  out |-> Report(getCachedQuery(store, q, u, fault)),
                  pre |-> DOMAIN store]
  /\ now' = now + 1
  /\ UNCHANGED <<fn, store, written, req, pending, last>>

CallSet(q, r, u, fault) ==
  LET out == setCachedQuery(store, q, r, u, now, fault) IN
  /\ calls < MaxCalls
  /\ calls' = calls + 1
  /\ lastCall' = [op |-> "set", q |-> q, r |-> r, u |-> u, fault |-> fault,
                  out |-> Report(out), pre |-> DOMAIN store]
  /\ store' = out.st
  /\ written' = IF out.val = Bool(TRUE)
                  THEN (Identity(q, u) :> [r |-> r, q |-> q]) @@ written
                  ELSE written
  /\ now' = now + 1
  /\ UNCHANGED <<fn, req, pending, last>>

CallClear(fault) ==
  LET out == clearQueryCache(store, fault) IN
  /\ calls < MaxCalls
  /\ calls' = calls + 1
  /\ lastCall' = [op |-> "clear", q |-> Undefined, r |-> Undefined, u |-> Undefined,
                  fault |-> fault, out |-> Report(out), pre |-> DOMAIN store]
  /\ store' = out.st
  /\ written' = IF out.val = Bool(TRUE) THEN NoWritten ELSE written
  /\ now' = now + 1
  /\ UNCHANGED <<fn, req, pending, last>>

\* The store drops an entry whose TTL has run out.
Expire(k) ==
  /\ calls < MaxCalls
  /\ calls' = calls + 1
  /\ k \in DOMAIN store
  /\ store' = StoreDrop(store, k)
  /\ written' = [i \in {j \in DOMAIN written : IdentityKey(j) # k} |-> written[i]]
  /\ lastCall' = [NoCall EXCEPT !.op = "expire"]
  /\ now' = now + 1
  /\ UNCHANGED <<fn, req, pending, last>>

\* A fault is drawn for the calls that reach the store; a call rejected on its
\* arguments returns before any store interaction.
FaultsFor(rejected) == IF rejected THEN {"none"} ELSE Faults

NextAccessor ==
  \/ \E q \in QueryArgs, u \in ScopeArgs :
       \E f \in FaultsFor(GetRejects(q)) : CallGet(q, u, f)
  \/ \E q \in QueryArgs, r \in ResultArgs, u \in ScopeArgs :
       \E f \in FaultsFor(SetRejects(q, r)) : CallSet(q, r, u, f)
  \/ \E f \in Faults : CallClear(f)
  \/ \E k \in DOMAIN store : Expire(k)

SpecAccessor == InitAccessor /\ [][NextAccessor]_vars

---------------------------------------------------------------------------
(* Interceptors in the documented order: queryCacheMiddleware,             *)
(* cacheResponseMiddleware, handler.  A request is the record of the       *)
(* fields the middleware reads: body.message, body.query, query.q,         *)
(* user.id, user._id (Undefined where the field or its parent is absent).  *)

Requests ==
  [message : {Undefined, Str(<<>>), Str(<<"a">>)},
   query : {Undefined, Str(<<" ", "a">>)},
   q : {Undefined, Num(5)},
   id : {Undefined, Str(<<"a">>)},
   _id : {Undefined, Str(<<"a">>)}]

Statuses == {200, 500}

\* A response body: an object with or without a data field.
Body(hasData, data) == [t |-> "object", hasData |-> hasData, data |-> data]

\* What each handler invocation may answer for request r.
DataOf(r) == IF r = "r1" THEN Num(1) ELSE Num(2)

Bodies(r) == {Body(FALSE, Undefined), Body(TRUE, Num(0)), Body(TRUE, DataOf(r))}

Response(status, body) == [status |-> status, body |-> body]

\* body?.data
DataField(body) == IF body.t = "object" /\ body.hasData THEN body.data ELSE Undefined

\* req.body?.message || req.body?.query || req.query?.q
ExtractUserQuery(request) == Or(Or(request.message, request.query), request.q)

\* req.user?.id || req.user?._id || ''
ExtractUserId(request) == Or(Or(request.id, request._id), Str(<<>>))

\* A step of a request: the request afterwards, the responses handed to the
\* original res.json, the setCachedQuery calls made, in order, and the number
\* of errors the catch block of queryCacheMiddleware caught.
Step(rq) == [rq |-> rq, delivered |-> <<>>, dispatched |-> <<>>, caught |-> 0]

\* The handler is entered through next().
InvokeHandler(e) == [e EXCEPT !.rq.handlerCalls = @ + 1, !.rq.pc = "handling"]

\* next() bound to the handler itself: the handler is entered and its
\* synchronous part returns to the caller of next() or throws into it.
SyncHandler(e, throws) ==
  IF throws
    THEN [e EXCEPT !.rq.handlerCalls = @ + 1, !.rq.pc = "thrown"]
    ELSE InvokeHandler(e)

\* The call of next() ended by throwing.
Thrown(e) == e.rq.pc = "thrown"

\* An error that leaves the async middleware rejects the promise it returned:
\* the failure is with the caller of the middleware.
Settle(e) == IF Thrown(e) THEN [e EXCEPT !.rq.pc = "failed"] ELSE e

cacheResponseMiddlewareAlwaysWraps(e) ==
  InvokeHandler([e EXCEPT !.rq.wrapped = TRUE])

\* cacheResponseMiddleware: without the marker it only calls next(); with it,
\* it replaces res.json by the caching wrapper and calls next().
cacheResponseMiddleware(e) ==
  IF ~Truthy(e.rq.marker.userQuery)
    THEN InvokeHandler(e)
    ELSE InvokeHandler([e EXCEPT !.rq.wrapped = TRUE])

\* What next is bound to: the response-side interceptor (the documented
\* order), or the handler itself, whose synchronous part returns or throws.
HandlerAsNext(throws) == IF throws THEN "handler throws" ELSE "handler returns"

\* next()
CallNext(e, nxt) ==
  IF nxt = "cacheResponseMiddleware"
    THEN cacheResponseMiddleware(e)
    ELSE SyncHandler(e, nxt = "handler throws")

\* The body queryCacheMiddleware answers a hit with.
CachedBody(cachedResult) ==
  [t |-> "object", hasData |-> TRUE, success |-> TRUE,
   data |-> cachedResult.result, cached |-> TRUE,
   timestamp |-> cachedResult.timestamp]

\* The original res.json: the response reaches the requester.
originalJson(e, status, body) ==
  [e EXCEPT !.rq.delivers = @ + 1,
            !.delivered = Append(@, Response(status, body))]

\* queryCacheMiddleware up to the await, with nxt as its next: extraction, the
\* bypass (return next(), outside the try block) and the call of
\* getCachedQuery.
QcmStartWith(rq, request, nxt) ==
  LET userQuery == ExtractUserQuery(request)
      userId == ExtractUserId(request)
  IN IF ~Truthy(userQuery) \/ ~IsString(userQuery)
       THEN Settle(CallNext(Step(rq), nxt))
       ELSE Step([rq EXCEPT !.userQuery = userQuery, !.userId = userId,
                            !.gets = @ + 1, !.pc = "lookup"])

\* In the documented order next is cacheResponseMiddleware.
QcmStart(rq, request) == QcmStartWith(rq, request, "cacheResponseMiddleware")

SetMarkerDropsScope(e) ==
  [e EXCEPT !.rq.marker = [userQuery |-> e.rq.userQuery, userId |-> Str(<<>>)]]

\* req.userQuery = userQuery; req.userId = userId;
SetMarker(e) ==
  [e EXCEPT !.rq.marker = [userQuery |-> e.rq.userQuery, userId |-> e.rq.userId]]

QcmResumeFallsThrough(rq, out) ==
  IF out.kind = "throw"
    THEN cacheResponseMiddleware(Step(rq))
  ELSE IF Truthy(out.val)
    THEN cacheResponseMiddleware(
           SetMarker(originalJson(Step(rq), 200, CachedBody(out.val))))
  ELSE cacheResponseMiddleware(SetMarker(Step(rq)))

\* catch (error) { console.error(...); next(); }: the error is dropped and
\* next is called, nxt being what that call does.
QcmCatch(e, nxt) ==
  Settle(CallNext([e EXCEPT !.caught = @ + 1, !.rq.pc = "lookup"], nxt))

\* queryCacheMiddleware from the await on, all of it inside the try block: out
\* is how getCachedQuery ended, nxt what the call of next() on a miss does and
\* nxtAgain what the call of next() in the catch block does.
QcmResumeWith(rq, out, nxt, nxtAgain) ==
  IF out.kind = "throw"
    THEN QcmCatch(Step(rq), nxtAgain)
  ELSE IF Truthy(out.val)
    THEN [originalJson(Step(rq), 200, CachedBody(out.val)) EXCEPT !.rq.pc = "served"]
  ELSE LET e == CallNext(SetMarker(Step(rq)), nxt)
       IN IF Thrown(e) THEN QcmCatch(e, nxtAgain) ELSE e

\* In the documented order next is cacheResponseMiddleware, an async function:
\* calling it returns a promise and never throws.
QcmResume(rq, out) ==
  QcmResumeWith(rq, out, "cacheResponseMiddleware", "cacheResponseMiddleware")

QualifiesAnyStatus(status, body) == Truthy(DataField(body))

\* res.statusCode === 200 && body?.data
Qualifies(status, body) == status = 200 /\ Truthy(DataField(body))

\* setCachedQuery(req.userQuery, body.data, req.userId || '')
CallSetCachedQuery(e, body) ==
  [e EXCEPT !.rq.sets = @ + 1,
            !.dispatched = Append(@, [q |-> e.rq.marker.userQuery,
                                      r |-> DataField(body),
                                      u |-> Or(e.rq.marker.userId, Str(<<>>))])]

JsonWrapperKeepsResponse(e, status, body) ==
  IF Qualifies(status, body)
    THEN CallSetCachedQuery(e, body)
    ELSE originalJson(e, status, body)

\* The function cacheResponseMiddleware installs as res.json.
JsonWrapper(e, status, body) ==
  IF Qualifies(status, body)
    THEN originalJson(CallSetCachedQuery(e, body), status, body)
    ELSE originalJson(e, status, body)

\* res.json as the handler finds it.
resJson(e, status, body) ==
  IF e.rq.wrapped THEN JsonWrapper(e, status, body) ELSE originalJson(e, status, body)

InitSpec == fn = NoFn /\ InitStore /\ InitAccessorVars /\ InitPipeline

Rest == <<fn, lastCall, written, calls>>

Arrive(r, request) ==
  LET e == QcmStart(req[r], request) IN
  /\ req[r].pc = "idle"
  /\ req' = [req EXCEPT ![r] = e.rq]
  /\ last' = [kind |-> "arrive", rid |-> r, delivered |-> e.delivered]
  /\ UNCHANGED <<store, now, pending, Rest>>

\* The store read of getCachedQuery completes or raises; the middleware resumes.
LookupSettles(r, fault) ==
  LET out == getCachedQuery(store, req[r].userQuery, req[r].userId, fault)
      e == QcmResume(req[r], out)
  IN /\ req[r].pc = "lookup"
     /\ req' = [req EXCEPT ![r] = e.rq]
     /\ last' = [kind |-> "lookup", rid |-> r, signal |-> out.signal,
                 delivered |-> e.delivered, caught |-> e.caught]
     /\ UNCHANGED <<store, now, pending, Rest>>

\* The setCachedQuery calls of one step, each stamped with the clock it reads.
Dispatch(r, e, k) ==
  [rid |-> r, n |-> req[r].sets + k, ts |-> now + k - 1,
   q |-> e.dispatched[k].q, r |-> e.dispatched[k].r, u |-> e.dispatched[k].u]

\* res.json calls made so far, over all requests.
TotalEmits == req["r1"].emits + req["r2"].emits

\* The handler sets the status and calls res.json(body).  The clock moves on
\* by one whenever setCachedQuery reads it.
HandlerResponds(r, status, body) ==
  LET e == resJson(Step([req[r] EXCEPT !.emits = @ + 1]), status, body) IN
  /\ req[r].pc = "handling"
  /\ TotalEmits < MaxEmits
  /\ req' = [req EXCEPT ![r] = e.rq]
  /\ pending' = pending \cup {Dispatch(r, e, k) : k \in 1..Len(e.dispatched)}
  /\ now' = now + Len(e.dispatched)
  /\ last' = [kind |-> "emit", rid |-> r, emitted |-> Response(status, body),
              delivered |-> e.delivered, dispatched |-> e.dispatched]
  /\ UNCHANGED <<store, Rest>>

\* The handler fails before it answers; the error goes to the framework.
HandlerFails(r) ==
  /\ req[r].pc = "handling"
  /\ req[r].emits = 0
  /\ req' = [req EXCEPT ![r].pc = "failed"]
  /\ last' = [kind |-> "fail", rid |-> r, delivered |-> <<>>]
  /\ UNCHANGED <<store, now, pending, Rest>>

\* A dispatched setCachedQuery runs to its end: the write lands or raises.
WriteSettles(w, fault) ==
  LET out == setCachedQuery(store, w.q, w.r, w.u, w.ts, fault) IN
  /\ w \in pending
  /\ store' = out.st
  /\ pending' = pending \ {w}
  /\ last' = [kind |-> "write", rid |-> w.rid, w |-> w, val |-> out.val,
              delivered |-> <<>>]
  /\ UNCHANGED <<now, req, Rest>>

\* The store drops an entry whose TTL has run out.
TtlExpires(k) ==
  /\ k \in DOMAIN store
  /\ store' = StoreDrop(store, k)
  /\ last' = [kind |-> "expire", delivered |-> <<>>]
  /\ UNCHANGED <<now, req, pending, Rest>>

Next ==
  \/ \E r \in Reqs, request \in Requests : Arrive(r, request)
  \/ \E r \in Reqs, f \in Faults : LookupSettles(r, f)
  \/ \E r \in Reqs, status \in Statuses : \E body \in Bodies(r) :
       HandlerResponds(r, status, body)
  \/ \E r \in Reqs : HandlerFails(r)
  \/ \E w \in pending, f \in Faults : WriteSettles(w, f)
  \/ \E k \in DOMAIN store : TtlExpires(k)

Spec == InitSpec /\ [][Next]_vars

\* The same pipeline with the store down: every store interaction raises.
StoreDownFaults == {"lookup", "op"}

NextStoreDown ==
  \/ \E r \in Reqs, request \in Requests : Arrive(r, request)
  \/ \E r \in Reqs, f \in StoreDownFaults : LookupSettles(r, f)
  \/ \E r \in Reqs, status \in Statuses : \E body \in Bodies(r) :
       HandlerResponds(r, status, body)
  \/ \E r \in Reqs : HandlerFails(r)
  \/ \E w \in pending, f \in StoreDownFaults : WriteSettles(w, f)

SpecStoreDown == InitSpec /\ [][NextStoreDown]_vars

\* A step of the handler of request r: it answers or it fails.
HandlerStep(r) ==
  \/ \E status \in Statuses : \E body \in Bodies(r) : HandlerResponds(r, status, body)
  \/ HandlerFails(r)

\* The pipeline with a handler that, once invoked, does answer or fail.  No
\* store interaction is required to complete: a lookup or a write may stay
\* outstanding for ever.
FairSpec == Spec /\ \A r \in Reqs : WF_vars(HandlerStep(r))

---------------------------------------------------------------------------
(* The synchronous part of queryCacheMiddleware applied to one request:    *)
(* extraction of the query text and of the scope, and the bypass.          *)

ExtractRequests ==
  [message : {Undefined, Str(<<>>), Str(<<"a">>), Str(<<" ">>), Num(5)},
   query : {Undefined, Str(<<>>), Str(<<" ", "a">>), Num(0)},
   q : {Undefined, Str(<<":">>), Num(5)},
   id : {Undefined, Str(<<"a">>)},
   _id : {Undefined, Str(<<":">>)}]

InitExtract ==
  /\ fn \in {[phase |-> "request", request |-> x, rq |-> NoReq] : x \in ExtractRequests}
  /\ InitStore /\ InitAccessorVars /\ InitPipeline

Extract ==
  /\ fn.phase = "request"
  /\ fn' = [fn EXCEPT !.phase = "extracted", !.rq = QcmStart(NoReq, fn.request).rq]
  /\ UNCHANGED <<store, now, lastCall, written, calls, req, pending, last>>

NextExtract == Extract

SpecExtract == InitExtract /\ [][NextExtract]_vars

---------------------------------------------------------------------------
(* queryCacheMiddleware with the handler itself as its next (no response-   *)
(* side interceptor; the cache is filled by direct calls of setCachedQuery). *)
(* The call of next() runs the synchronous part of the handler, which       *)
(* returns or throws; what the handler does later is HandlerResponds or     *)
(* HandlerFails.                                                            *)

\* The store as a direct setCachedQuery("a", 1) leaves it, or empty.
DirectStores ==
  {EmptyStore,
   setCachedQuery(EmptyStore, Str(<<"a">>), Num(1), Undefined, 0, "none").st}

InitDirect ==
  /\ fn = NoFn
  /\ store \in DirectStores /\ now = 1
  /\ InitAccessorVars /\ InitPipeline

ArriveDirect(r, request, throws) ==
  LET e == QcmStartWith(req[r], request, HandlerAsNext(throws)) IN
  /\ req[r].pc = "idle"
  /\ req' = [req EXCEPT ![r] = e.rq]
  /\ last' = [kind |-> "arrive", rid |-> r, delivered |-> e.delivered]
  /\ UNCHANGED <<store, now, pending, Rest>>

\* The lookup ends and the middleware resumes; throws says how the handler
\* behaves when next() enters it, throwsAgain how it behaves when the catch
\* block enters it.
LookupSettlesDirect(r, fault, throws, throwsAgain) ==
  LET out == getCachedQuery(store, req[r].userQuery, req[r].userId, fault)
      e == QcmResumeWith(req[r], out, HandlerAsNext(throws),
                         HandlerAsNext(throwsAgain))
  IN /\ req[r].pc = "lookup"
     /\ req' = [req EXCEPT ![r] = e.rq]
     /\ last' = [kind |-> "lookup", rid |-> r, signal |-> out.signal,
                 delivered |-> e.delivered, caught |-> e.caught]
     /\ UNCHANGED <<store, now, pending, Rest>>

NextDirect ==
  \/ \E r \in Reqs, request \in Requests, t \in BOOLEAN : ArriveDirect(r, request, t)
  \/ \E r \in Reqs, f \in Faults, t \in BOOLEAN, u \in BOOLEAN :
       LookupSettlesDirect(r, f, t, u)
  \/ \E r \in Reqs, status \in Statuses : \E body \in Bodies(r) :
       HandlerResponds(r, status, body)
  \/ \E r \in Reqs : HandlerFails(r)

SpecDirect == InitDirect /\ [][NextDirect]_vars

---------------------------------------------------------------------------
(* Claims about the key deriver and the accessor *)

\* C2 (as claimed): two (scope, trimmed text) pairs get the same key exactly
\* when they are the same pair; pairs that differ in scope or text never
\* share the text the digest is computed from.
KeySeparation ==
  fn.phase = "keys" => ((fn.a = fn.b) <=> (fn.ka = fn.kb))

\* The step is an accessor call (or expiry) of the sequential client.
IsCall == calls' = calls + 1

SetSucceeded(c) == c.op = "set" /\ c.out.val = Bool(TRUE)

ReturnsEntryWithResult(c, r) ==
  c.out.kind = "return" /\ c.out.val.t = "object" /\ c.out.val.result = r

\* C3 (as claimed): a get that directly follows a successful set, under the
\* same scope and with a text that trims to the same text, returns the entry
\* holding the result that was set (the store read itself not raising).
TrimEquivalence ==
  [][(/\ IsCall
      /\ SetSucceeded(lastCall)
      /\ lastCall'.op = "get"
      /\ lastCall'.fault = "none"
      /\ IsString(lastCall'.q)
      /\ DefaultEmpty(lastCall'.u) = DefaultEmpty(lastCall.u)
      /\ Trim(lastCall'.q.s) = Trim(lastCall.q.s))
     => ReturnsEntryWithResult(lastCall', lastCall.r)]_vars

\* C4: after set(q, r1, A) succeeds on a store holding nothing under the key
\* of (B, q), B # A, the next get(q, B) returns null, and the next get(q, A)
\* whose store read completes returns the entry with result r1.
ScopeIsolation ==
  [][(/\ IsCall
      /\ SetSucceeded(lastCall)
      /\ lastCall'.op = "get"
      /\ lastCall'.q = lastCall.q)
     => LET A == DefaultEmpty(lastCall.u)
            B == DefaultEmpty(lastCall'.u)
            keyB == Digest(B.s \o <<":">> \o Trim(lastCall.q.s))
        IN /\ (B # A /\ keyB \notin lastCall.pre)
                => (lastCall'.out.kind = "return" /\ lastCall'.out.val = Null)
           /\ (B = A /\ lastCall'.fault = "none")
                => ReturnsEntryWithResult(lastCall', lastCall.r)]_vars

\* C4 witness: a get under one scope came back null while the same text is
\* live in the store under another scope.
ScopeIsolationWitness ==
  /\ lastCall.op = "get"
  /\ IsString(lastCall.q)
  /\ lastCall.fault = "none"
  /\ lastCall.out.val = Null
  /\ \E id \in DOMAIN written :
       /\ id.t = Trim(lastCall.q.s)
       /\ id.u # DefaultEmpty(lastCall.u).s
       /\ IdentityKey(id) \in DOMAIN store

\* C5: a get, set or clear during which the store lookup or the store
\* operation raises still returns to its caller: null from get, false from set
\* and from clear; no call ends by throwing.
FailureContainment ==
  lastCall.op \in {"get", "set", "clear"} =>
    /\ lastCall.out.kind = "return"
    /\ lastCall.fault # "none" =>
         lastCall.out.val = (IF lastCall.op = "get" THEN Null ELSE Bool(FALSE))

\* C5 witness: the store raised on the write of a set with valid arguments.
FailureContainmentWitness ==
  /\ lastCall.op = "set"
  /\ lastCall.fault = "op"
  /\ lastCall.out.writes = 1
  /\ lastCall.out.val = Bool(FALSE)

\* "empty, absent or non-string"
InvalidQueryText(q) == q.t # "string" \/ q.s = <<>>

\* C9: get with an invalid query text returns null, set with an invalid query
\* text or an undefined result returns false; neither looks the store up,
\* reads it, writes it or throws, and the store is left as it was.
InvalidInputRejected ==
  [][(/\ IsCall
      /\ lastCall'.op \in {"get", "set"}
      /\ \/ InvalidQueryText(lastCall'.q)
         \/ (lastCall'.op = "set" /\ lastCall'.r = Undefined))
     => /\ lastCall'.out.kind = "return"
        /\ lastCall'.out.val = (IF lastCall'.op = "get" THEN Null ELSE Bool(FALSE))
        /\ lastCall'.out.lookups = 0
        /\ lastCall'.out.reads = 0
        /\ lastCall'.out.writes = 0
        /\ store' = store]_vars

\* C9 witness: a set with a usable text and an undefined result was rejected
\* on a store that holds an entry.
InvalidInputRejectedWitness ==
  /\ lastCall.op = "set"
  /\ ~InvalidQueryText(lastCall.q)
  /\ lastCall.r = Undefined
  /\ lastCall.out.val = Bool(FALSE)
  /\ store # EmptyStore

\* C10 (as claimed): a get whose store read completes, for an identity that a
\* successful set wrote and no expiry or clear removed since, returns the
\* entry of the latest such set: its result, its untrimmed text, its scope.
RoundTripLastWriterWins ==
  (/\ lastCall.op = "get"
   /\ lastCall.fault = "none"
   /\ IsString(lastCall.q)
   /\ Identity(lastCall.q, lastCall.u) \in DOMAIN written)
  => LET w == written[Identity(lastCall.q, lastCall.u)]
     IN /\ ReturnsEntryWithResult(lastCall, w.r)
        /\ lastCall.out.val.query = w.q
        /\ lastCall.out.val.userId = DefaultEmpty(lastCall.u)

---------------------------------------------------------------------------
(* Claims about the interceptors *)

\* The key under which the identity of request r is cached.
RequestKey(r) == IdentityKey(Identity(req[r].userQuery, req[r].userId))

\* The step resumes queryCacheMiddleware of request r after its lookup.
LookupStepOf(r) ==
  req[r].pc = "lookup" /\ req'[r].pc # "lookup" /\ last'.kind = "lookup" /\ last'.rid = r

\* C1: when the lookup of a request completes (the store read not raising)
\* and the store holds a live entry under the request's identity, the request
\* is answered from that entry (status 200, its result, cached = true, its
\* timestamp) and next is not invoked, then or later.
NoInvocationOnHit ==
  [][\A r \in Reqs :
       /\ (LookupStepOf(r) /\ RequestKey(r) \in DOMAIN store /\ last'.signal # "error")
            => /\ req'[r].pc = "served"
               /\ req'[r].handlerCalls = 0
               /\ last'.delivered =
                    <<[status |-> 200,
                       body |-> [t |-> "object", hasData |-> TRUE, success |-> TRUE,
                                 data |-> store[RequestKey(r)].result,
                                 cached |-> TRUE,
                                 timestamp |-> store[RequestKey(r)].timestamp]]>>
       /\ req[r].pc = "served" => req'[r] = req[r]]_vars

\* C1 witness: a request has been served from the cache.
NoInvocationOnHitWitness ==
  \E r \in Reqs :
    /\ req[r].pc = "served"
    /\ last.kind = "lookup" /\ last.rid = r /\ last.signal = "hit"
    /\ RequestKey(r) \in DOMAIN store
    /\ req[r].delivers = 1

\* C6: with the store down, a request with a usable query text has next
\* invoked exactly once as soon as its lookup has ended (and not before), is
\* never answered from the cache, and every response the handler emits is
\* handed on to the requester as it is; nothing else reaches the requester.
StoreDownTransparent ==
  /\ \A r \in Reqs :
       IsString(req[r].userQuery) =>
         /\ req[r].pc \in {"lookup", "handling", "failed"}
         /\ req[r].handlerCalls = (IF req[r].pc = "lookup" THEN 0 ELSE 1)
         /\ req[r].delivers = req[r].emits
  /\ last.kind = "emit" => last.delivered = <<last.emitted>>
  /\ last.kind \notin {"emit", "none"} => last.delivered = <<>>

\* C6 witness: the write of a delivered response failed on the store.
StoreDownTransparentWitness ==
  /\ last.kind = "write"
  /\ last.val = Bool(FALSE)
  /\ IsString(req[last.rid].userQuery)
  /\ req[last.rid].handlerCalls = 1
  /\ req[last.rid].delivers = 1

\* The step is a res.json call of the handler of request r, which carries the
\* Pending-Cache Marker.
MarkedEmitStepOf(r) ==
  /\ last'.kind = "emit" /\ last'.rid = r
  /\ req'[r].emits = req[r].emits + 1
  /\ Truthy(req[r].marker.userQuery)

IsSuccessStatus(status) == status \in 200..299

HasDataField(body) == body.t = "object" /\ body.hasData

\* C7: a response of a marked request whose status is not a success, or
\* whose body has no data field, makes no setCachedQuery call and writes
\* nothing to the store.
WriteOnSuccessOnly ==
  [][\A r \in Reqs :
       (/\ MarkedEmitStepOf(r)
        /\ \/ ~IsSuccessStatus(last'.emitted.status)
           \/ ~HasDataField(last'.emitted.body))
       => /\ last'.dispatched = <<>>
          /\ req'[r].sets = req[r].sets
          /\ pending' = pending
          /\ store' = store]_vars

\* C7 witness: a marked request answered 500 with a data payload, and no
\* setCachedQuery call was made.
WriteOnSuccessOnlyWitness ==
  /\ last.kind = "emit"
  /\ Truthy(req[last.rid].marker.userQuery)
  /\ last.emitted.status = 500
  /\ Truthy(DataField(last.emitted.body))
  /\ last.dispatched = <<>>
  /\ req[last.rid].sets = 0

\* C8 (as claimed): every response of a marked request with a success status
\* and a data field, whatever its value, calls setCachedQuery with the
\* marker's query text, the payload and the marker's scope.
WriteOnQualifyingResponse ==
  [][\A r \in Reqs :
       (/\ MarkedEmitStepOf(r)
        /\ IsSuccessStatus(last'.emitted.status)
        /\ HasDataField(last'.emitted.body))
       => last'.dispatched =
            <<[q |-> req[r].marker.userQuery, r |-> last'.emitted.body.data,
               u |-> req[r].marker.userId]>>]_vars

\* C11: a res.json call of a marked request hands the emitted response,
\* unchanged, to the requester in the very step that dispatches the write,
\* while that write is still outstanding and the store untouched; a write
\* that settles later, landing or failing, delivers nothing and changes no
\* request; and a request whose handler has been invoked is eventually
\* answered or failed even if no write ever settles.
FireAndForget ==
  /\ [][/\ \A r \in Reqs :
             MarkedEmitStepOf(r) =>
               /\ last'.delivered = <<last'.emitted>>
               /\ req'[r].delivers = req[r].delivers + 1
               /\ req'[r].sets = req[r].sets + Len(last'.dispatched)
               /\ Cardinality(pending' \ pending) = Len(last'.dispatched)
               /\ pending \subseteq pending'
               /\ store' = store
        /\ last'.kind = "write" => (last'.delivered = <<>> /\ req' = req)]_vars
  /\ \A r \in Reqs :
       (req[r].pc = "handling" /\ req[r].emits = 0)
         ~> (req[r].delivers > 0 \/ req[r].pc = "failed")

\* C11 witness: a response has reached the requester while the write it
\* dispatched is still outstanding.
FireAndForgetWitness ==
  /\ last.kind = "emit"
  /\ last.dispatched # <<>>
  /\ last.delivered = <<last.emitted>>
  /\ \E w \in pending : w.rid = last.rid /\ w.r = last.emitted.body.data

\* C12 (as claimed): when the lookup of a request ends in a miss the handler
\* is invoked exactly once, and the interceptor catches no error of that
\* invocation: a handler that fails leaves the request failed after its one
\* invocation.
HandlerFailurePassesThrough ==
  [][\A r \in Reqs :
       (LookupStepOf(r) /\ last'.signal = "miss")
         => /\ req'[r].handlerCalls = 1
            /\ last'.caught = 0
            /\ req'[r].pc \in {"handling", "failed"}]_vars

\* "usable (non-empty string) query text"
Usable(v) == IsString(v) /\ v.s # <<>>

\* C13 (as claimed): the query text looked up is the first usable value among
\* body.message, body.query and query.q, in that order; the request bypasses
\* the cache (no lookup, the handler entered) only if none of the three is
\* usable.
ExtractionPriority ==
  fn.phase = "extracted" =>
    LET m == fn.request.message
        b == fn.request.query
        p == fn.request.q
        first == IF Usable(m) THEN m ELSE IF Usable(b) THEN b ELSE p
    IN IF Usable(m) \/ Usable(b) \/ Usable(p)
         THEN fn.rq.pc = "lookup" /\ fn.rq.gets = 1 /\ fn.rq.userQuery = first
         ELSE fn.rq.pc = "handling" /\ fn.rq.gets = 0

\* The request has left queryCacheMiddleware through the bypass: it was taken
\* up and no query text was kept for a lookup.
Bypassed(rq) == rq.pc # "idle" /\ rq.userQuery = Undefined

\* C14: a request without a usable query text has the handler invoked once
\* on arrival, makes no getCachedQuery call, carries no marker, keeps the
\* original res.json, and none of its steps, whatever status and body the
\* handler answers with, calls setCachedQuery or changes the store.
BypassNoCacheInteraction ==
  [][\A r \in Reqs :
       Bypassed(req'[r]) =>
         /\ req'[r].handlerCalls = 1
         /\ req'[r].gets = 0
         /\ req'[r].marker = NoMarker
         /\ ~req'[r].wrapped
         /\ req'[r].sets = 0
         /\ \A w \in pending' : w.rid # r
         /\ (last'.kind \in {"arrive", "emit", "fail"} /\ last'.rid = r)
              => /\ store' = store
                 /\ pending' = pending
                 /\ last'.kind = "emit" =>
                      (last'.dispatched = <<>> /\ last'.delivered = <<last'.emitted>>)]_vars

\* C14 witness: a bypassed request answered 200 with a data payload while the
\* store holds an entry; no write was dispatched.
BypassNoCacheInteractionWitness ==
  /\ last.kind = "emit"
  /\ Bypassed(req[last.rid])
  /\ last.emitted.status = 200
  /\ Truthy(DataField(last.emitted.body))
  /\ req[last.rid].sets = 0
  /\ store # EmptyStore

\* C15 (as claimed): a request with a usable query text makes exactly one
\* getCachedQuery call, and no request makes more than one getCachedQuery
\* call or more than one setCachedQuery call.
ExactlyOnceConsultAndPopulate ==
  \A r \in Reqs :
    /\ IsString(req[r].userQuery) => req[r].gets = 1
    /\ req[r].gets <= 1
    /\ req[r].sets <= 1

\* C16: whenever a dispatched write completes, the store afterwards holds
\* under the key of the write's (scope, trimmed text) the entry of that very
\* write (its payload, its timestamp), whatever it held there before, and every
\* other key holds what it held; a write that fails leaves the store as it
\* was.  Hence after two concurrent writes of one identity the store holds the
\* entry of the one that completed last.
ConcurrentMissesLastWriteWins ==
  [][last'.kind = "write" =>
       LET w == last'.w
           k == Digest(DefaultEmpty(w.u).s \o <<":">> \o Trim(w.q.s))
       IN /\ w \in pending
          /\ pending' = pending \ {w}
          /\ IF last'.val = Bool(TRUE)
               THEN /\ DOMAIN store' = DOMAIN store \cup {k}
                    /\ store'[k].result = w.r
                    /\ store'[k].timestamp = w.ts
                    /\ \A x \in DOMAIN store \ {k} : store'[x] = store[x]
               ELSE store' = store]_vars

\* C16 witness: two requests of one identity (with different raw texts) both
\* missed, both had the handler invoked and both wrote; both writes are over
\* and the store holds the entry of the write that completed last, which is
\* the one dispatched first.
ConcurrentMissesLastWriteWinsWitness ==
  /\ last.kind = "write" /\ last.val = Bool(TRUE)
  /\ pending = {}
  /\ \A r \in Reqs :
       /\ Truthy(req[r].marker.userQuery)
       /\ req[r].handlerCalls = 1
       /\ req[r].sets = 1
  /\ req["r1"].userQuery # req["r2"].userQuery
  /\ RequestKey("r1") = RequestKey("r2")
  /\ DOMAIN store = {RequestKey("r1")}
  /\ store[RequestKey("r1")].result = DataOf(last.rid)
  /\ store[RequestKey("r1")].timestamp = 0
  /\ now = 2

\* C17 (as claimed): no get or set calls the key deriver with an empty text,
\* and a call whose text trims to the empty text is rejected (null / false)
\* without key derivation, store lookup, read or write.
KeyDeriverNeverGivenEmptyText ==
  lastCall.op \in {"get", "set"} =>
    /\ \A i \in 1..Len(lastCall.out.keyArgs) : lastCall.out.keyArgs[i] # <<>>
    /\ (IsString(lastCall.q) /\ Trim(lastCall.q.s) = <<>>) =>
         /\ lastCall.out.val = (IF lastCall.op = "get" THEN Null ELSE Bool(FALSE))
         /\ lastCall.out.keyArgs = <<>>
         /\ lastCall.out.lookups = 0
         /\ lastCall.out.reads = 0
         /\ lastCall.out.writes = 0

\* C18: (1) the write a marked request dispatches carries the query text and
\* the scope its lookup used and the payload the handler answered with; (2)
\* when that write completes, the store holds under the key of the request's
\* lookup identity an entry with that payload and the timestamp read at the
\* write; (3) a lookup that completes, for any request whose (scope, trimmed
\* text) is that identity, while the entry is still there is answered from
\* it: status 200, data the payload, cached = true, the entry's timestamp.
MissThenHit ==
  [][/\ \A r \in Reqs :
          (MarkedEmitStepOf(r) /\ last'.dispatched # <<>>) =>
            last'.dispatched =
              <<[q |-> req[r].userQuery, r |-> last'.emitted.body.data,
                 u |-> req[r].userId]>>
     /\ (last'.kind = "write" /\ last'.val = Bool(TRUE)) =>
          /\ RequestKey(last'.rid) \in DOMAIN store'
          /\ store'[RequestKey(last'.rid)].result = last'.w.r
          /\ store'[RequestKey(last'.rid)].timestamp = last'.w.ts
     /\ \A r \in Reqs :
          (LookupStepOf(r) /\ last'.signal # "error"
             /\ RequestKey(r) \in DOMAIN store) =>
            /\ Len(last'.delivered) = 1
            /\ last'.delivered[1].status = 200
            /\ last'.delivered[1].body.data = store[RequestKey(r)].result
            /\ last'.delivered[1].body.cached = TRUE
            /\ last'.delivered[1].body.timestamp = store[RequestKey(r)].timestamp]_vars

\* C18 witness: r1 missed with text "a", its handler answered 200 with its
\* payload and the write completed; r2, with the same scope and a text that
\* only trims to "a", has then been served that payload from the cache.
MissThenHitWitness ==
  /\ last.kind = "lookup" /\ last.rid = "r2" /\ last.signal = "hit"
  /\ req["r1"].sets = 1 /\ req["r1"].emits = 1
  /\ req["r1"].userQuery = Str(<<"a">>)
  /\ req["r2"].userQuery = Str(<<" ", "a">>)
  /\ req["r1"].userId = req["r2"].userId
  /\ req["r1"].userId # Str(<<>>)
  /\ req["r2"].pc = "served"
  /\ last.delivered[1].body.data = DataOf("r1")
  /\ last.delivered[1].body.cached = TRUE

\* The requester of rq got a response that no res.json call of the handler
\* produced: it was answered from the cache.
AnsweredFromCache(rq) == rq.delivers > rq.emits

\* C19: the lookup step that answers a request from the cache leaves the
\* store (entries, timestamps) and the outstanding writes as they are, and a
\* request answered from the cache never carries the marker, never gets the
\* caching res.json, never has the handler invoked and never makes or has
\* outstanding a setCachedQuery call.
HitNeverWrites ==
  [][\A r \in Reqs :
       /\ (LookupStepOf(r) /\ last'.signal = "hit") =>
            /\ AnsweredFromCache(req'[r])
            /\ store' = store
            /\ pending' = pending
            /\ now' = now
       /\ AnsweredFromCache(req'[r]) =>
            /\ req'[r].marker = NoMarker
            /\ ~req'[r].wrapped
            /\ req'[r].handlerCalls = 0
            /\ req'[r].sets = 0
            /\ \A w \in pending' : w.rid # r]_vars

\* C19 witness: a request has been answered from the cache; the entry it was
\* answered from is in the store with the timestamp of its write, and the
\* request made no setCachedQuery call.
HitNeverWritesWitness ==
  \E r \in Reqs :
    /\ last.kind = "lookup" /\ last.rid = r /\ last.signal = "hit"
    /\ AnsweredFromCache(req[r])
    /\ req[r].sets = 0
    /\ RequestKey(r) \in DOMAIN store
    /\ store[RequestKey(r)].timestamp = last.delivered[1].body.timestamp
    /\ store[RequestKey(r)].timestamp < now

\* The value is an entry record with a result, held under (or asked for by)
\* the key k of its own scope and trimmed query text.
IsEntryOfKey(v, k) ==
  /\ v.t = "object"
  /\ v.result # Undefined
  /\ IsString(v.query) /\ IsString(v.userId)
  /\ k = Digest(v.userId.s \o <<":">> \o Trim(v.query.s))

\* C20: after any sequence of get, set and clear calls (and expiries) on an
\* initially empty store, every value in the store is an entry with a result
\* other than undefined, held under the key of its own scope and trimmed
\* query text; a get with a valid text whose store read completes returns an
\* entry, of its key, whenever the store holds something under its key, and
\* no get returns anything but null or such an entry.
StoreConsistency ==
  /\ \A k \in DOMAIN store : IsEntryOfKey(store[k], k)
  /\ (lastCall.op = "get" /\ lastCall.out.val # Null) =>
       /\ IsString(lastCall.q)
       /\ IsEntryOfKey(lastCall.out.val,
                       Digest(DefaultEmpty(lastCall.u).s \o <<":">> \o Trim(lastCall.q.s)))
  /\ (/\ lastCall.op = "get"
      /\ IsString(lastCall.q) /\ lastCall.q.s # <<>>
      /\ lastCall.fault = "none"
      /\ Digest(DefaultEmpty(lastCall.u).s \o <<":">> \o Trim(lastCall.q.s))
           \in lastCall.pre)
     => lastCall.out.val # Null

\* C20 witness: the store holds two entries, and a get with text "a" has
\* returned the entry that was set with text " a".
StoreConsistencyWitness ==
  /\ Cardinality(DOMAIN store) = 2
  /\ lastCall.op = "get"
  /\ lastCall.q = Str(<<"a">>)
  /\ lastCall.out.val.t = "object"
  /\ lastCall.out.val.query = Str(<<" ", "a">>)

===========================================================================
